---- MODULE Spec2Model ----
(***************************************************************************)
(* A model of kinfolk (src/src/kinfolk.js): atoms, selectors, the lazily   *)
(* materialised per-store runtimes (atomStates), dependency tracking in    *)
(* evaluateSelectorFn, memoisation in getSnapshot / isDirty, notification  *)
(* in update / notify and teardown in subscribe / dispose.                 *)
(*                                                                         *)
(* JavaScript Sets keep insertion order, so listeners, parents and         *)
(* children are sequences without duplicates.  A JavaScript value is a     *)
(* record [ref, v]: ref = 0 for a primitive (identity is the content v),   *)
(* ref > 0 is the identity of an array whose items are v.  An array        *)
(* allocated by a compute function takes the least identity that nothing   *)
(* in the store or in the caller's hands still refers to.                  *)
(***************************************************************************)
EXTENDS Integers, Sequences, FiniteSets, TLC

\* ------------------------------------------------------------------------
\* Bounds
\* ------------------------------------------------------------------------
\* atoms hold the numbers 0..MaxVal
MaxVal == 2
\* listener callbacks are 1..NumListeners
NumListeners == 1
\* getters left on the stack of active getters by compute functions that
\* threw: no more than MaxGetters
MaxGetters == 2
\* runs of consecutive writes with no read in between: 1..MaxBatch writes
MaxBatch == 2
\* debug() is called as long as no array holds more than MaxItems items
MaxItems == 2

\* ------------------------------------------------------------------------
\* The handles of the client programs
\* ------------------------------------------------------------------------
Atoms == {"flag", "x", "y", "w", "items", "extra"}
Selectors ==
  {"sb", "sc", "sd", "dyn", "fam", "use", "inner", "outer", "bad", "konst",
   "echo", "top", "view", "keep", "chain"}
\* a function that neither atom() nor selector() returned: no atomMeta
Unregistered == {"ghost"}
Handles == Atoms \cup Selectors \cup Unregistered
Listeners == 1..NumListeners

\* the numbers a client writes to an atom
ValsOf(ref) == IF ref \in {"x", "w"} THEN 0..MaxVal ELSE 0..1

\* the argument of a call without argument (undefined)
NoArg == 0

\* the client programs: a diamond, a conditional reader, a family; a chain
\* of selectors that are not persistent; a compute function that throws;
\* listeners that read the store from inside their callback; two atoms
\* under one label, with a selector that reads nothing; one atom and one
\* selector used in two stores; a persistent family over a selector that
\* is not persistent; a family that reads itself with another argument
Scenarios == {"diamond", "dynamic", "family"}
AllScenarios ==
  Scenarios \cup {"release", "throwing", "reentrant", "labels", "stores",
                  "outlive", "selfread"}

\* the stores a client program creates
StoresOf(sc) == IF sc = "stores" THEN {1, 2} ELSE {1}

HandlesOf(sc) ==
  CASE sc = "diamond" -> {"x", "sb", "sc", "sd"}
    [] sc = "dynamic" -> {"flag", "x", "y", "dyn"}
    [] sc = "family" -> {"x", "y", "fam", "use"}
    [] sc = "release" -> {"flag", "x", "inner", "outer"}
    [] sc = "throwing" -> {"x", "y", "bad"}
    [] sc = "reentrant" -> {"w", "echo", "top"}
    [] sc = "labels" -> {"items", "extra", "view", "konst"}
    [] sc = "stores" -> {"x", "sc"}
    [] sc = "outlive" -> {"x", "inner", "keep"}
    [] sc = "selfread" -> {"x", "chain"}

\* the handles a client registers listeners on
ListenedOf(sc) ==
  CASE sc = "diamond" -> {"sd"}
    [] sc = "dynamic" -> {"x", "dyn"}
    [] sc = "family" -> {"fam", "use"}
    [] sc = "release" -> {"inner", "outer"}
    [] sc = "throwing" -> {"bad"}
    [] sc = "reentrant" -> {"w", "top"}
    [] sc = "labels" -> {"view"}
    [] sc = "stores" -> {"sc"}
    [] sc = "outlive" -> {"keep"}
    [] sc = "selfread" -> {"chain"}

\* what the callbacks registered on a handle do when called: nothing but
\* take note of the call, except
\*   on w:   () => { seen.push(store.get(w)); seen.push(store.get(top)) }
\*   on top: () => { seen.push(store.get(top)) }
ListenerReads(ref) ==
  CASE ref = "w" -> <<"w", "top">>
    [] ref = "top" -> <<"top">>
    [] OTHER -> <<>>

\* the callbacks a client registers on a handle: one more on outer
ListenersOn(ref) == IF ref = "outer" THEN 1..(NumListeners + 1) ELSE Listeners

\* the arguments a client passes to a handle
ArgsOf(ref) ==
  IF ref \in {"fam", "konst", "keep", "chain"} THEN {1, 2} ELSE {NoArg}
Args == {NoArg, 1, 2}

\* ------------------------------------------------------------------------
\* Values
\* ------------------------------------------------------------------------
Prim(n) == [ref |-> 0, v |-> <<n>>]
Null == [ref |-> 0, v |-> <<>>]
IsArray(a) == a.ref > 0

\* a === b
Identical(a, b) == a = b

arrEqual(a, b) == IsArray(a) /\ IsArray(b) /\ a.v = b.v

shallowEqual(a, b) == Identical(a, b) \/ arrEqual(a, b)

\* ------------------------------------------------------------------------
\* atom() and selector(): the static definitions (atomMetas)
\* ------------------------------------------------------------------------
initialState(ref) == IF ref = "items" THEN [ref |-> 1, v |-> <<>>] ELSE Prim(0)

\* if (label) atomRef.label = label; without one getAtom generates a label
\* that no other runtime of the store has
label(ref) == IF ref \in {"items", "extra"} THEN "data" ELSE ref

isSelectorRef(ref) == ref \in Selectors

\* persist, had no selector been persistent
persistNever(ref) == FALSE

\* how the clients create their selectors: use and outer with useSelector,
\* the others with selector(); and the persist option they pass (use is
\* given { persist: true }, inner and bad { persist: false })
createdBy(ref) == IF ref \in {"use", "outer"} THEN "useSelector" ELSE "selector"
persistOption(ref) ==
  CASE ref = "use" -> "true"
    [] ref \in {"inner", "bad"} -> "false"
    [] OTHER -> "unset"

\* persist, had useSelector let the caller's options win
persistCallerWins(ref) == persistOption(ref) # "false"

\* selector(selectorFn, { persist = true }); useSelector creates its
\* selector with { ...options, persist: false }
persist(ref) ==
  IF createdBy(ref) = "useSelector" THEN FALSE
  ELSE persistOption(ref) # "false"

NoRead == [ok |-> FALSE, ref |-> "x", arg |-> NoArg]
Read(ref, arg) == [ok |-> TRUE, ref |-> ref, arg |-> arg]

Truthy(val) == val.v # <<>> /\ val.v[1] # 0

\* The compute functions, as the next handle they call after having read
\* vals, and the value they return once they call nothing more:
\*   sb  = selector(() => (x() < 2 ? [1, 2] : [1]))
\*   sc  = selector(() => x())
\*   sd  = selector(() => sb().length + sc())
\*   dyn = selector(() => (flag() ? x() : y()))
\*   fam = selector((n) => (n === 1 ? x() : y()))
\*   use = useSelector(() => fam(1), [], { persist: true })
\*   inner = selector(() => x(), { persist: false })
\*   outer = useSelector(() => (flag() ? x() : inner()))
\*   bad = selector(() => { const v = x(); if (v > 0) throw new Error(); return v },
\*                  { persist: false })
\*   konst = selector((n) => [n])
\*   echo = selector(() => w())
\*   top = selector(() => echo())
\*   view = selector(() => extra())
\*   keep = selector((n) => inner())
\*   chain = selector((n) => (n === 1 ? x() : chain(1) + chain(1)))
\* with the atoms
\*   items = atom([], { label: 'data' })
\*   extra = atom(0, { label: 'data' })
\* and every other atom atom(0)
NextRead(ref, arg, vals) ==
  CASE ref = "sb" -> IF Len(vals) = 0 THEN Read("x", NoArg) ELSE NoRead
    [] ref = "sc" -> IF Len(vals) = 0 THEN Read("x", NoArg) ELSE NoRead
    [] ref = "sd" -> IF Len(vals) = 0 THEN Read("sb", NoArg)
                     ELSE IF Len(vals) = 1 THEN Read("sc", NoArg) ELSE NoRead
    [] ref = "dyn" -> IF Len(vals) = 0 THEN Read("flag", NoArg)
                      ELSE IF Len(vals) = 1
                           THEN (IF Truthy(vals[1]) THEN Read("x", NoArg)
                                                   ELSE Read("y", NoArg))
                           ELSE NoRead
    [] ref = "fam" -> IF Len(vals) = 0
                      THEN (IF arg = 1 THEN Read("x", NoArg) ELSE Read("y", NoArg))
                      ELSE NoRead
    [] ref = "use" -> IF Len(vals) = 0 THEN Read("fam", 1) ELSE NoRead
    [] ref = "inner" -> IF Len(vals) = 0 THEN Read("x", NoArg) ELSE NoRead
    [] ref = "outer" -> IF Len(vals) = 0 THEN Read("flag", NoArg)
                        ELSE IF Len(vals) = 1
                             THEN (IF Truthy(vals[1]) THEN Read("x", NoArg)
                                                     ELSE Read("inner", NoArg))
                             ELSE NoRead
    [] ref = "bad" -> IF Len(vals) = 0 THEN Read("x", NoArg) ELSE NoRead
    [] ref = "konst" -> NoRead
    [] ref = "echo" -> IF Len(vals) = 0 THEN Read("w", NoArg) ELSE NoRead
    [] ref = "top" -> IF Len(vals) = 0 THEN Read("echo", NoArg) ELSE NoRead
    [] ref = "view" -> IF Len(vals) = 0 THEN Read("extra", NoArg) ELSE NoRead
    [] ref = "keep" -> IF Len(vals) = 0 THEN Read("inner", NoArg) ELSE NoRead
    [] ref = "chain" -> IF arg = 1
                        THEN (IF Len(vals) = 0 THEN Read("x", NoArg) ELSE NoRead)
                        ELSE IF Len(vals) < 2 THEN Read("chain", 1) ELSE NoRead

\* the compute function throws instead of returning
Throws(ref, arg, vals) == ref = "bad" /\ vals[1].v[1] > 0

\* the returned value: whether it is a newly allocated array, and its content
Result(ref, arg, vals) ==
  CASE ref = "sb" -> [arr |-> TRUE,
                      v |-> IF vals[1].v[1] < 2 THEN <<1, 2>> ELSE <<1>>]
    [] ref = "konst" -> [arr |-> TRUE, v |-> <<arg>>]
    [] ref = "sd" -> [arr |-> FALSE, v |-> <<Len(vals[1].v) + vals[2].v[1]>>]
    [] ref \in {"dyn", "outer"} -> [arr |-> FALSE, v |-> vals[2].v]
    [] ref = "chain" /\ arg # 1 -> [arr |-> FALSE, v |-> <<vals[1].v[1] + vals[2].v[1]>>]
    [] OTHER -> [arr |-> FALSE, v |-> vals[1].v]

\* the equal option: none of the clients passes one, getAtom falls back to
\* shallowEqual
equal(ref, a, b) == shallowEqual(a, b)

\* ------------------------------------------------------------------------
\* Ordered sets
\* ------------------------------------------------------------------------
Range(s) == {s[i] : i \in 1..Len(s)}
SetAdd(s, e) == IF e \in Range(s) THEN s ELSE Append(s, e)
SetDelete(s, e) == SelectSeq(s, LAMBDA z : z # e)

\* ------------------------------------------------------------------------
\* Runtimes (atomStates)
\* ------------------------------------------------------------------------
NoMemo == [has |-> FALSE, value |-> Null, inputs |-> <<>>]
EmptyMemo == [a \in Args |-> NoMemo]

\* a handle without an entry in atomStates
NoRuntime == [mat |-> FALSE, state |-> Null, listeners |-> <<>>,
              parents |-> <<>>, children |-> <<>>, memo |-> EmptyMemo,
              at |-> 0]

\* NewRuntime, had the memo of a new selector runtime come with an entry
NewRuntimeWithValue(ref) ==
  [mat |-> TRUE,
   state |-> IF isSelectorRef(ref) THEN Null ELSE initialState(ref),
   listeners |-> <<>>, parents |-> <<>>, children |-> <<>>,
   memo |-> IF isSelectorRef(ref)
            THEN [a \in Args |-> [has |-> TRUE, value |-> Prim(0), inputs |-> <<>>]]
            ELSE EmptyMemo,
   at |-> 0]

NewRuntime(ref) ==
  [mat |-> TRUE,
   state |-> IF isSelectorRef(ref) THEN Null ELSE initialState(ref),
   listeners |-> <<>>, parents |-> <<>>, children |-> <<>>,
   memo |-> EmptyMemo, at |-> 0]

isSelector(ref) == isSelectorRef(ref)

\* atomStates.set(atomRef, atom): a Map keeps its entries in the order of
\* their insertion.  Of that order the runtime keeps, in the field at, its
\* place among the entries of the same kind and label, the only part of
\* the order an operation of the store depends on.
SameDest(as, ref) ==
  {h \in DOMAIN as \ {ref} :
     as[h].mat /\ isSelector(h) = isSelector(ref) /\ label(h) = label(ref)}
atomStatesSet(as, ref, atom) ==
  [as EXCEPT ![ref] =
     [atom EXCEPT !.at =
        IF SameDest(as, ref) = {} THEN 0
        ELSE 1 + CHOOSE n \in {as[h].at : h \in SameDest(as, ref)} :
                   \A h \in SameDest(as, ref) : as[h].at <= n]]

\* The running operation: the store, the error it has thrown (if any), the
\* trace of compute-function and listener calls, the array identities its
\* caller holds, the stack of active getters above defaultGet (each getter
\* named by the selector whose computation pushed it) and, for each getter
\* on the stack, the inputs array of its closure; and the insertions into
\* children sets the operation has made so far.  as is the atomStates the
\* functions are passed, and st tells which Map that is.
Start(as, held) ==
  [as |-> as, err |-> "", log |-> <<>>, held |-> held, getters |-> <<>>,
   frames |-> <<>>, adds |-> <<>>, st |-> 1]
Throw(s, e) == IF s.err = "" THEN [s EXCEPT !.err = e] ELSE s
Ret(s, val) == [s |-> s, val |-> val]

\* the calls an operation makes, each with the Map it was made on (the
\* first Map, unless said otherwise)
ComputeEv(ref, arg) ==
  [k |-> "compute", ref |-> ref, x |-> arg, val |-> Null, st |-> 1]
FireEv(ref, l) == [k |-> "fire", ref |-> ref, x |-> l, val |-> Null, st |-> 1]
\* a callback obtained val from store.get(ref)
ReadEv(ref, val) ==
  [k |-> "read", ref |-> ref, x |-> NoArg, val |-> val, st |-> 1]

\* getAtom, had it not looked into the atomMeta
getAtomAnyHandle(s, ref) ==
  IF s.as[ref].mat THEN s
  ELSE [s EXCEPT !.as = atomStatesSet(@, ref, NewRuntime(ref))]

\* has(atomMeta, ...) throws a TypeError when the handle has no atomMeta,
\* before atomStates.set
getAtom(s, ref) ==
  IF s.as[ref].mat THEN s
  ELSE IF ref \in Unregistered THEN Throw(s, "TypeError")
  ELSE [s EXCEPT !.as = atomStatesSet(@, ref, NewRuntime(ref))]

\* the array identities still referred to
UsedRefs(s) ==
  s.held
  \cup {initialState(h).ref : h \in Atoms}
  \cup {s.as[h].state.ref : h \in DOMAIN s.as}
  \cup {s.as[h].memo[a].value.ref : h \in DOMAIN s.as, a \in Args}
  \cup UNION {{s.as[h].memo[a].inputs[i].value.ref :
                 i \in 1..Len(s.as[h].memo[a].inputs)} :
              h \in DOMAIN s.as, a \in Args}

NewRef(s) ==
  LET used == UsedRefs(s)
      cand == {k \in 1..(Cardinality(used) + 1) : k \notin used}
  IN CHOOSE k \in cand : \A j \in cand : k <= j


\* ------------------------------------------------------------------------
\* evaluateSelectorFn, getSnapshot, isDirty
\* ------------------------------------------------------------------------
RECURSIVE getSnapshot(_, _, _)
RECURSIVE isDirtyInputs(_, _, _)
RECURSIVE isDirtyInputsNoPull(_, _, _)
RECURSIVE isDirtyInputsNoneIsDirty(_, _, _)
RECURSIVE runSelectorFn(_, _, _, _, _)
RECURSIVE call(_, _, _)
RECURSIVE untrack(_, _, _, _)
RECURSIVE get(_, _, _, _)

\* untrack, had evaluateSelectorFn left the old edges in place
untrackNothing(s, ref, ps, i) == s

\* the loop "for (const parentAtomRef of atom.parents)" of evaluateSelectorFn:
\* a parent without runtime makes parentAtom.children throw a TypeError
untrack(s, ref, ps, i) ==
  IF i > Len(ps) THEN s
  ELSE IF ~s.as[ps[i]].mat THEN Throw(s, "TypeError")
  ELSE untrack([s EXCEPT !.as[ps[i]].children = SetDelete(@, ref)],
               ref, ps, i + 1)

\* the value a compute function returns: a primitive, or a new array
Allocate(s, res) ==
  IF res.arr THEN [ref |-> NewRef(s), v |-> res.v] ELSE [ref |-> 0, v |-> res.v]

\* the tracking getter at position k of the stack, created by the
\* computation of selector s.getters[k].ref: it links the two nodes, takes
\* the parent's snapshot and pushes the input onto the inputs array of its
\* own closure.  atom is the runtime object the computation began with:
\* when that object has left atomStates since (live is FALSE),
\* atom.parents.add changes nothing a store can reach, while
\* parentAtom.children.add(atomRef) acts on the runtime in atomStates.
get(s, k, parentAtomRef, arg) ==
  LET ref == s.getters[k].ref
      track(s1) ==
        [s1 EXCEPT !.as[ref].parents = IF s.getters[k].live
                                       THEN SetAdd(@, parentAtomRef) ELSE @,
                   !.as[parentAtomRef].children = SetAdd(@, ref),
                   !.adds = IF ref \in Range(s1.as[parentAtomRef].children)
                            THEN @ ELSE Append(@, <<parentAtomRef, ref>>)]
      push(r) ==
        IF r.s.err # "" THEN r
        ELSE [r EXCEPT !.s.frames[k] =
                Append(@, [atomRef |-> parentAtomRef, arg |-> arg,
                           value |-> r.val])]
      tracked(s1) ==
        IF s1.err # "" THEN Ret(s1, Null)
        ELSE push(getSnapshot(track(s1), parentAtomRef, arg))
  IN tracked(getAtom(s, parentAtomRef))

\* the handle itself, (arg) => __get(ref, arg): the getter on top of the
\* stack, defaultGet when nothing was pushed
call(s, ref, arg) ==
  IF s.getters = <<>>
  THEN Ret(Throw(s, "Atoms can only be read in selectors"), Null)
  ELSE get(s, Len(s.getters), ref, arg)

\* atom.selectorFn(arg), run while its getter sits at position k: each
\* handle it calls goes through __get and hands back a value; vals are the
\* values handed back so far, and the inputs of the computation are what
\* its own getter has recorded when it returns
runSelectorFn(s, ref, arg, vals, k) ==
  LET nr == NextRead(ref, arg, vals)
  IN IF s.err # "" THEN [s |-> s, val |-> Null, inputs |-> <<>>]
     ELSE IF ~nr.ok
     THEN (IF Throws(ref, arg, vals)
           THEN [s |-> Throw(s, "Error"), val |-> Null, inputs |-> <<>>]
           ELSE [s |-> s, val |-> Allocate(s, Result(ref, arg, vals)),
                 inputs |-> s.frames[k]])
     ELSE LET resume(r) == runSelectorFn(r.s, ref, arg, Append(vals, r.val), k)
          IN resume(call(s, nr.ref, nr.arg))

\* withGetter, had it left the getter on the stack after fn returned
withGetterNoPop(s, ref, arg) ==
  runSelectorFn([s EXCEPT !.getters = Append(@, [ref |-> ref, live |-> TRUE]),
                          !.frames = Append(@, <<>>)],
                ref, arg, <<>>, Len(s.getters) + 1)

\* __getters.push(get); fn(); __getters.pop(): the pop is skipped when fn
\* throws
withGetter(s, ref, arg) ==
  LET pop(r) ==
        IF r.s.err # "" THEN r
        ELSE [r EXCEPT !.s.getters = SubSeq(@, 1, Len(@) - 1),
                       !.s.frames = SubSeq(@, 1, Len(@) - 1)]
  IN pop(runSelectorFn([s EXCEPT !.getters = Append(@, [ref |-> ref, live |-> TRUE]),
                                 !.frames = Append(@, <<>>)],
                       ref, arg, <<>>, Len(s.getters) + 1))

\* evaluateSelectorFn, had it not cleared atom.parents
evaluateSelectorFnAccumulating(s, ref, arg) ==
  LET s1 == untrack(s, ref, s.as[ref].parents, 1)
  IN IF s1.err # "" THEN [s |-> s1, val |-> Null, inputs |-> <<>>]
     ELSE withGetter([s1 EXCEPT !.log = Append(@, ComputeEv(ref, arg))], ref, arg)

evaluateSelectorFn(s, ref, arg) ==
  LET run(s1) ==
        IF s1.err # "" THEN [s |-> s1, val |-> Null, inputs |-> <<>>]
        ELSE withGetter([s1 EXCEPT !.as[ref].parents = <<>>,
                                   !.log = Append(@, ComputeEv(ref, arg))],
                        ref, arg)
  IN run(untrack(s, ref, s.as[ref].parents, 1))

\* isDirtyInputs, had it compared the snapshot with the recorded input
\* object instead of its value
isDirtyInputsWholeInput(s, inputs, i) ==
  IF i > Len(inputs) THEN Ret(s, FALSE)
  ELSE LET r == getSnapshot(s, inputs[i].atomRef, inputs[i].arg)
       IN Ret(r.s, r.s.err = "")

\* isDirtyInputs, had it compared each recorded value with what the input
\* holds, state or memoised value, without pulling the input
isDirtyInputsNoPull(s, inputs, i) ==
  IF i > Len(inputs) THEN Ret(s, FALSE)
  ELSE LET s1 == getAtom(s, inputs[i].atomRef)
           rt == s1.as[inputs[i].atomRef]
           cur == IF ~isSelector(inputs[i].atomRef) THEN rt.state
                  ELSE IF rt.memo[inputs[i].arg].has
                       THEN rt.memo[inputs[i].arg].value
                       ELSE Null
       IN IF s1.err # "" THEN Ret(s1, FALSE)
          ELSE IF ~Identical(cur, inputs[i].value) THEN Ret(s1, TRUE)
          ELSE isDirtyInputsNoPull(s1, inputs, i + 1)

\* isDirtyInputs, had it taken an entry without inputs for dirty
isDirtyInputsNoneIsDirty(s, inputs, i) ==
  IF Len(inputs) = 0 THEN Ret(s, TRUE)
  ELSE IF i > Len(inputs) THEN Ret(s, FALSE)
  ELSE LET r == getSnapshot(s, inputs[i].atomRef, inputs[i].arg)
       IN IF r.s.err # "" THEN Ret(r.s, FALSE)
          ELSE IF ~Identical(r.val, inputs[i].value) THEN Ret(r.s, TRUE)
          ELSE isDirtyInputsNoneIsDirty(r.s, inputs, i + 1)

\* the loop over the recorded inputs of isDirty
isDirtyInputs(s, inputs, i) ==
  LET compare(r) ==
        IF r.s.err # "" THEN Ret(r.s, FALSE)
        ELSE IF ~Identical(r.val, inputs[i].value) THEN Ret(r.s, TRUE)
        ELSE isDirtyInputs(r.s, inputs, i + 1)
  IN IF i > Len(inputs) THEN Ret(s, FALSE)
     ELSE compare(getSnapshot(s, inputs[i].atomRef, inputs[i].arg))

\* isDirty, had it always asked for a recomputation
isDirtyAlways(s, ref, arg) == Ret(getAtom(s, ref), TRUE)

\* isDirty, had it looked for a memo entry only
isDirtyMemoOnly(s, ref, arg) ==
  LET s1 == getAtom(s, ref)
  IN Ret(s1, ~s1.as[ref].memo[arg].has)

isDirty(s, ref, arg) ==
  LET check(s1) ==
        IF ~s1.as[ref].memo[arg].has THEN Ret(s1, TRUE)
        ELSE isDirtyInputs(s1, s1.as[ref].memo[arg].inputs, 1)
  IN check(getAtom(s, ref))

\* Memoise, had it left the whole entry alone when the new value is equal
MemoiseKeepEntry(ref, old, val, inputs) ==
  IF old.has /\ equal(ref, old.value, val) THEN old
  ELSE [has |-> TRUE, value |-> val, inputs |-> inputs]

\* the entry getSnapshot stores: { value, inputs }, with the memoised value
\* when the new one is equal to it
Memoise(ref, old, val, inputs) ==
  [has |-> TRUE,
   value |-> IF old.has /\ equal(ref, old.value, val) THEN old.value ELSE val,
   inputs |-> inputs]

\* memoSet, had the memo been one entry per handle
memoSetAnyArg(memo, arg, entry) == [a \in Args |-> entry]

\* atom.memo.set(arg, entry)
memoSet(memo, arg, entry) == [memo EXCEPT ![arg] = entry]

getSnapshot(s, ref, arg) ==
  LET set(e, m) ==
        Ret([e.s EXCEPT !.as[ref].memo = memoSet(@, arg, m)], m.value)
      memoise(e) ==
        IF e.s.err # "" THEN Ret(e.s, Null)
        ELSE set(e, Memoise(ref, e.s.as[ref].memo[arg], e.val, e.inputs))
      pull(d) ==
        IF d.s.err # "" THEN Ret(d.s, Null)
        ELSE IF ~d.val THEN Ret(d.s, d.s.as[ref].memo[arg].value)
        ELSE memoise(evaluateSelectorFn(d.s, ref, arg))
      snapshot(s1) ==
        IF s1.err # "" THEN Ret(s1, Null)
        ELSE IF ~isSelector(ref) THEN Ret(s1, s1.as[ref].state)
        ELSE pull(isDirty(s1, ref, arg))
  IN IF s.err # "" THEN Ret(s, Null) ELSE snapshot(getAtom(s, ref))

\* ------------------------------------------------------------------------
\* notify, update
\* ------------------------------------------------------------------------
RECURSIVE notifyFrom(_, _, _)
RECURSIVE notifyFromRefreshing(_, _, _)
RECURSIVE notifyChildren(_, _, _, _)
RECURSIVE callListeners(_, _, _, _)
RECURSIVE listener(_, _, _)

\* the body of a callback: the store.get calls it makes, from position j
listener(s, reads, j) ==
  LET seen(r) ==
        IF r.s.err # "" THEN r.s
        ELSE listener([r.s EXCEPT !.log = Append(@, ReadEv(reads[j], r.val))],
                      reads, j + 1)
  IN IF j > Len(reads) \/ s.err # "" THEN s
     ELSE seen(getSnapshot(s, reads[j], NoArg))

\* atom.listeners.forEach((l) => l()), from position i of the listeners ls
callListeners(s, ref, ls, i) ==
  IF i > Len(ls) \/ s.err # "" THEN s
  ELSE callListeners(
         listener([s EXCEPT !.log =
                             Append(@, [FireEv(ref, ls[i]) EXCEPT !.st = s.st])],
                  ListenerReads(ref), 1),
         ref, ls, i + 1)

\* atom.children.forEach((childRef) => notify(atomStates, childRef)): the
\* iteration of a Set is live, it goes on to whatever was inserted since it
\* began, a child deleted and inserted again included.  seen holds the
\* children visited, each with the number of insertions made before the visit.
notifyChildren(s, ref, seen, depth) ==
  LET cs == s.as[ref].children
      done(c) == \E v \in seen :
                   /\ v.c = c
                   /\ \A j \in (v.t + 1)..Len(s.adds) : s.adds[j] # <<ref, c>>
      left == {i \in 1..Len(cs) : ~done(cs[i])}
      i == CHOOSE m \in left : \A n \in left : m <= n
  IN IF s.err # "" \/ left = {} THEN s
     ELSE notifyChildren(notifyFrom(s, cs[i], depth + 1), ref,
                         seen \cup {[c |-> cs[i], t |-> Len(s.adds)]}, depth)

\* notifyFrom, had it taken the snapshot of each selector it notifies
notifyFromRefreshing(s, ref, depth) ==
  IF s.err # "" THEN s
  ELSE IF depth > Cardinality(Handles) THEN Throw(s, "RangeError")
  ELSE IF ~s.as[ref].mat THEN Throw(s, "TypeError")
  ELSE LET s1 == IF isSelector(ref) THEN getSnapshot(s, ref, NoArg).s ELSE s
       IN notifyChildren(callListeners(s1, ref, s1.as[ref].listeners, 1),
                         ref, {}, depth)

\* notify at a given depth of the recursion.  A path of children longer
\* than the number of handles runs through a cycle: the recursion never
\* returns, and ends when the call stack is exhausted (a RangeError), after
\* more listener calls than the trace then holds.
notifyFrom(s, ref, depth) ==
  IF s.err # "" THEN s
  ELSE IF depth > Cardinality(Handles) THEN Throw(s, "RangeError")
  ELSE IF ~s.as[ref].mat THEN Throw(s, "TypeError")
  ELSE notifyChildren(callListeners(s, ref, s.as[ref].listeners, 1),
                      ref, {}, depth)

notify(s, ref) == notifyFrom(s, ref, 0)

\* what is written: a plain value n or the updater (c) => c + n, through
\* store.set or the setter of useSetter; or an action dispatched to the
\* reducer of useReducer
Plain(n) == [fn |-> FALSE, n |-> n, action |-> ""]
Updater(n) == [fn |-> TRUE, n |-> n, action |-> ""]
Dispatch(action) == [fn |-> FALSE, n |-> 0, action |-> action]
Actions == {"inc", "dec", "other"}

\* setReducer, had it taken a function for a value to store: the updater
\* is not applied
setReducerStoresUpdate(state, u) == Prim(u.n)

\* typeof update === 'function' ? update(state) : update
setReducer(state, u) == IF u.fn THEN Prim(state.v[1] + u.n) ELSE Prim(u.n)

\* the reducer a client passes to useReducer
count(state, action) ==
  CASE action = "inc" -> Prim(state.v[1] + 1)
    [] action = "dec" -> Prim(state.v[1] - 1)
    [] OTHER -> state

\* the updater update() is called with: store.set and useSetter decide by
\* typeof, dispatch calls the reducer
updater(state, u) ==
  IF u.action # "" THEN count(state, u.action) ELSE setReducer(state, u)

\* update, had it notified without comparing the states
updateAlwaysNotifies(s, ref, u) ==
  LET s1 == getAtom(s, ref)
  IN IF s1.err # "" THEN s1
     ELSE IF isSelector(ref) THEN Throw(s1, "Only atoms can be updated")
     ELSE notify([s1 EXCEPT !.as[ref].state = updater(@, u)], ref)

\* update, had it not asserted that the handle is an atom (an updater
\* function given the null state of a selector returns it)
updateAnyNode(s, ref, u) ==
  LET s1 == getAtom(s, ref)
      curr == s1.as[ref].state
      next == IF isSelector(ref) /\ (u.fn \/ u.action # "") THEN curr
              ELSE updater(curr, u)
      s2 == [s1 EXCEPT !.as[ref].state = next]
  IN IF s1.err # "" THEN s1
     ELSE IF ~Identical(curr, next) THEN notify(s2, ref)
     ELSE s2

\* update, had it notified before assigning the new state
updateNotifiesFirst(s, ref, u) ==
  LET s1 == getAtom(s, ref)
      curr == s1.as[ref].state
      next == updater(curr, u)
      s2 == IF ~Identical(curr, next) THEN notify(s1, ref) ELSE s1
  IN IF s1.err # "" THEN s1
     ELSE IF isSelector(ref) THEN Throw(s1, "Only atoms can be updated")
     ELSE IF s2.err # "" THEN s2
     ELSE [s2 EXCEPT !.as[ref].state = next]

update(s, ref, u) ==
  LET s1 == getAtom(s, ref)
      curr == s1.as[ref].state
      next == updater(curr, u)
      s2 == [s1 EXCEPT !.as[ref].state = next]
  IN IF s1.err # "" THEN s1
     ELSE IF isSelector(ref) THEN Throw(s1, "Only atoms can be updated")
     ELSE IF ~Identical(curr, next) THEN notify(s2, ref)
     ELSE s2

\* ------------------------------------------------------------------------
\* subscribe, unsubscribe, dispose
\* ------------------------------------------------------------------------
RECURSIVE dispose(_, _)
RECURSIVE disposeParents(_, _, _, _)
RECURSIVE disposeParentsEdgesOnly(_, _, _, _)

\* disposeParents, had it deleted the edges without releasing the parents
disposeParentsEdgesOnly(s, ref, ps, i) ==
  IF i > Len(ps) \/ s.err # "" THEN s
  ELSE IF ~s.as[ps[i]].mat THEN Throw(s, "TypeError")
  ELSE disposeParentsEdgesOnly(
         [s EXCEPT !.as[ps[i]].children = SetDelete(@, ref)], ref, ps, i + 1)

\* the loop over atom.parents of dispose
disposeParents(s, ref, ps, i) ==
  IF i > Len(ps) \/ s.err # "" THEN s
  ELSE IF ~s.as[ps[i]].mat THEN Throw(s, "TypeError")
  ELSE disposeParents(
         dispose([s EXCEPT !.as[ps[i]].children = SetDelete(@, ref)], ps[i]),
         ref, ps, i + 1)

\* dispose, had it never deleted a runtime
disposeKeepsRuntime(s, ref) ==
  LET atom == s.as[ref]
  IN IF s.err # "" THEN s
     ELSE IF ~atom.mat THEN Throw(s, "TypeError")
     ELSE IF isSelector(ref) /\ atom.listeners = <<>> /\ atom.children = <<>>
     THEN disposeParents(s, ref, atom.parents, 1)
     ELSE s

\* dispose, had it looked at the children only
disposeIgnoresListeners(s, ref) ==
  LET atom == s.as[ref]
  IN IF s.err # "" THEN s
     ELSE IF ~atom.mat THEN Throw(s, "TypeError")
     ELSE IF isSelector(ref) /\ atom.children = <<>>
     THEN disposeParents(
            IF ~persist(ref) THEN [s EXCEPT !.as[ref] = NoRuntime] ELSE s,
            ref, atom.parents, 1)
     ELSE s

\* dispose, had it released atoms as it releases selectors (an atom's
\* runtime has no persist field)
disposeAnyNode(s, ref) ==
  LET atom == s.as[ref]
  IN IF s.err # "" THEN s
     ELSE IF ~atom.mat THEN Throw(s, "TypeError")
     ELSE IF atom.listeners = <<>> /\ atom.children = <<>>
     THEN disposeParents(
            IF ~(isSelector(ref) /\ persist(ref))
            THEN [s EXCEPT !.as[ref] = NoRuntime] ELSE s,
            ref, atom.parents, 1)
     ELSE s

dispose(s, ref) ==
  LET atom == s.as[ref]
  IN IF s.err # "" THEN s
     ELSE IF ~atom.mat THEN Throw(s, "TypeError")
     ELSE IF isSelector(ref) /\ atom.listeners = <<>> /\ atom.children = <<>>
     THEN disposeParents(
            IF ~persist(ref) THEN [s EXCEPT !.as[ref] = NoRuntime] ELSE s,
            ref, atom.parents, 1)
     ELSE s

subscribe(s, ref, fn) ==
  LET s1 == getAtom(s, ref)
  IN IF s1.err # "" THEN s1
     ELSE [s1 EXCEPT !.as[ref].listeners = SetAdd(@, fn)]

\* the closure returned by subscribe holds the runtime object it registered
\* on: live tells whether that object is still the one in atomStates
unsubscribe(s, ref, fn, live) ==
  dispose(IF live THEN [s EXCEPT !.as[ref].listeners = SetDelete(@, fn)] ELSE s,
          ref)


\* store.debug().  "for (const atomState of atomStates.values())" takes
\* the runtimes in the order of the Map; dest is result for an atom and
\* result.__selectors for a selector, val the state or the memo.  What
\* dest[label] holds after the runtimes hs[1..i-1] of one dest and label:
\* nothing; the val of one runtime; a new array [first, ...] made by
\* "dest[label] = [dest[label]]"; or the val of the first runtime, itself an
\* array, that the later vals were pushed onto.
JsTruthy(as, h) == isSelector(h) \/ IsArray(as[h].state) \/ Truthy(as[h].state)

RECURSIVE debugFold(_, _, _, _)
debugFold(as, hs, i, dest) ==
  IF i > Len(hs) THEN dest
  ELSE debugFold(as, hs, i + 1,
         IF dest.kind = "none" \/ (dest.kind = "single" /\ ~JsTruthy(as, dest.hs[1]))
         THEN [kind |-> "single", hs |-> <<hs[i]>>]
         ELSE IF dest.kind = "single"
         THEN [kind |-> IF ~isSelector(dest.hs[1]) /\ IsArray(as[dest.hs[1]].state)
                        THEN "pushed" ELSE "wrapped",
               hs |-> <<dest.hs[1], hs[i]>>]
         ELSE [dest EXCEPT !.hs = Append(@, hs[i])])

\* the runtimes hs in the order of atomStates
RECURSIVE MapOrder(_, _)
MapOrder(as, hs) ==
  IF hs = {} THEN <<>>
  ELSE LET h == CHOOSE m \in hs : \A g \in hs : as[m].at <= as[g].at
       IN <<h>> \o MapOrder(as, hs \ {h})

\* what push appends to an array of numbers: the number, or -1 for a val
\* that is no number
Pushed(as, h) ==
  IF ~isSelector(h) /\ ~IsArray(as[h].state) /\ as[h].state.v # <<>>
  THEN as[h].state.v[1] ELSE -1

\* the object debug() returns, each key with the runtimes whose vals it
\* holds, and atomStates after the call: dest[label].push(val) on a val that
\* is the state of an atom appends to that atom's state
debug(as) ==
  LET mat == {h \in DOMAIN as : as[h].mat}
      dest(h) == debugFold(as, MapOrder(as, SameDest(as, h) \cup {h}), 1,
                           [kind |-> "none", hs |-> <<>>])
      pushedOnto(h) == h \in mat /\ dest(h).kind = "pushed" /\ dest(h).hs[1] = h
  IN [as |-> [h \in DOMAIN as |->
                IF pushedOnto(h)
                THEN [as[h] EXCEPT !.state.v =
                        @ \o [i \in 1..(Len(dest(h).hs) - 1) |->
                                Pushed(as, dest(h).hs[i + 1])]]
                ELSE as[h]],
      result |-> [lab \in {label(h) : h \in {g \in mat : ~isSelector(g)}} |->
                    dest(CHOOSE h \in mat : ~isSelector(h) /\ label(h) = lab)],
      __selectors |-> [lab \in {label(h) : h \in {g \in mat : isSelector(g)}} |->
                         dest(CHOOSE h \in mat : isSelector(h) /\ label(h) = lab)]]

\* ------------------------------------------------------------------------
\* State
\* ------------------------------------------------------------------------
VARIABLES
  scn,     \* the client program that runs
  store,   \* the first Map made by "atomStates: new Map()": handle -> runtime
  store2,  \* the second Map made
  subs,    \* the unsubscribe closures not called yet
  getters  \* __getters above defaultGet

vars == <<scn, store, store2, subs, getters>>

InitFor(sc) ==
  /\ scn = sc
  /\ store = [h \in HandlesOf(sc) \cup Unregistered |-> NoRuntime]
  /\ store2 = [h \in HandlesOf(sc) \cup Unregistered |-> NoRuntime]
  /\ subs = {}
  /\ getters = <<>>

Init == \E sc \in Scenarios : InitFor(sc)

\* the closures of a handle whose runtime left the Map m hold a detached
\* object from then on
Detach(ss, as, m) ==
  {[t EXCEPT !.live = t.live /\ (t.st = m => as[t.ref].mat)] : t \in ss}

\* and so do the getters left on the stack, which were created by
\* computations of the first store
DetachGetters(g, as, m) ==
  [i \in 1..Len(g) |->
     [g[i] EXCEPT !.live = g[i].live /\ (m = 1 => as[g[i].ref].mat)]]

\* an operation called from outside any computation
Begin(as, g) ==
  [Start(as, {}) EXCEPT !.getters = g, !.frames = [i \in 1..Len(g) |-> <<>>]]

\* createStore, had its stores shared one Map
createStoreSharedMap(st) == 1

\* createStore(): the Map of the st-th store a client creates is the st-th
\* Map made, "atomStates: new Map()"
createStore(st) == st

\* the Map, and an operation of the st-th store, which passes its own
\* atomStates to the functions
atomStates(m) == IF m = 1 THEN store ELSE store2
On(st) ==
  [Begin(atomStates(createStore(st)), getters) EXCEPT !.st = createStore(st)]
\* the Maps after the operation
Maps(st, as) ==
  /\ store' = IF createStore(st) = 1 THEN as ELSE store
  /\ store2' = IF createStore(st) = 2 THEN as ELSE store2

\* ------------------------------------------------------------------------
\* The operations of a store
\* ------------------------------------------------------------------------
\* store.get(atomRef, arg)
Get(st, ref, arg) ==
  LET r == getSnapshot(On(st), ref, arg)
  IN /\ Len(r.s.getters) <= MaxGetters
     /\ Maps(st, r.s.as)
     /\ getters' = r.s.getters
     /\ UNCHANGED <<scn, subs>>

\* atomRef() / selectorRef(arg), called outside any computation
Call(ref, arg) ==
  LET r == call(Begin(store, getters), ref, arg)
  IN /\ Len(r.s.getters) <= MaxGetters
     /\ store' = r.s.as
     /\ getters' = r.s.getters
     /\ UNCHANGED <<scn, store2, subs>>

\* the state update() reads: getAtom materialises the atom first
StateOf(as, ref) == IF as[ref].mat THEN as[ref].state ELSE initialState(ref)

\* the writes of a client: plain values, the updaters (c) => c and
\* (c) => c + 1 and the actions of the reducer, as long as the result stays
\* within the values of the atom; a plain value to what is not an atom;
\* nothing to items, which its client only reads
Plains(ref) == {Plain(n) : n \in ValsOf(ref)}
Updaters(as, ref) ==
  {u \in {Updater(0), Updater(1)} : StateOf(as, ref).v[1] + u.n \in ValsOf(ref)}
Dispatches(as, ref) ==
  {Dispatch(a) : a \in {b \in Actions : count(StateOf(as, ref), b).v[1] \in ValsOf(ref)}}
WritesOf(as, ref) ==
  IF ref = "items" THEN {}
  ELSE IF ref \in Atoms THEN Plains(ref) \cup Updaters(as, ref) \cup Dispatches(as, ref)
  ELSE {Plain(0)}

\* store.set(atomRef, value), dispatch(action)
Set(st, ref, u) ==
  /\ Maps(st, update(On(st), ref, u).as)
  /\ UNCHANGED <<scn, subs, getters>>

\* subscribe(atomStates, atomRef, fn), with a callback that is not
\* registered on the handle at the moment; no closure is returned when
\* subscribe throws
Subscribe(st, ref, l) ==
  LET s == subscribe(On(st), ref, l)
  IN /\ \A t \in subs : ~(t.st = createStore(st) /\ t.ref = ref /\ t.l = l /\ t.live)
     /\ Maps(st, s.as)
     /\ subs' = IF s.err = ""
                THEN subs \cup {[st |-> createStore(st), ref |-> ref, l |-> l,
                                 live |-> TRUE]}
                ELSE subs
     /\ UNCHANGED <<scn, getters>>

\* store.debug()
Debug(st) ==
  LET d == debug(atomStates(createStore(st)))
  IN /\ \A h \in Atoms \cap DOMAIN d.as : Len(d.as[h].state.v) <= MaxItems
     /\ Maps(st, d.as)
     /\ UNCHANGED <<scn, subs, getters>>

\* the closure returned by subscribe, which holds the atomStates that
\* subscribe was passed
Unsubscribe(t) ==
  LET s == unsubscribe([Begin(atomStates(t.st), getters) EXCEPT !.st = t.st],
                       t.ref, t.l, t.live)
  IN /\ store' = IF t.st = 1 THEN s.as ELSE store
     /\ store2' = IF t.st = 2 THEN s.as ELSE store2
     /\ subs' = Detach(subs \ {t}, s.as, t.st)
     /\ getters' = DetachGetters(getters, s.as, t.st)
     /\ UNCHANGED scn

\* the handles a client holds, and a function that is no handle
Callable(sc) == HandlesOf(sc) \cup Unregistered

Next ==
  \/ \E st \in StoresOf(scn) : \E ref \in Callable(scn) : \E arg \in ArgsOf(ref) :
       Get(st, ref, arg)
  \/ \E ref \in Callable(scn) : \E arg \in ArgsOf(ref) : Call(ref, arg)
  \/ \E st \in StoresOf(scn) : \E ref \in Callable(scn) :
       \E u \in WritesOf(atomStates(createStore(st)), ref) : Set(st, ref, u)
  \/ \E st \in StoresOf(scn) : \E ref \in ListenedOf(scn) \cup Unregistered :
       \E l \in ListenersOn(ref) : Subscribe(st, ref, l)
  \/ \E t \in subs : Unsubscribe(t)
  \/ \E st \in StoresOf(scn) : Debug(st)

Spec == Init /\ [][Next]_vars

SpecDiamond == InitFor("diamond") /\ [][Next]_vars
SpecDynamic == InitFor("dynamic") /\ [][Next]_vars
SpecFamily == InitFor("family") /\ [][Next]_vars
SpecRelease == InitFor("release") /\ [][Next]_vars
SpecThrowing == InitFor("throwing") /\ [][Next]_vars
SpecReentrant == InitFor("reentrant") /\ [][Next]_vars
SpecLabels == InitFor("labels") /\ [][Next]_vars
SpecStores == InitFor("stores") /\ [][Next]_vars
SpecOutlive == InitFor("outlive") /\ [][Next]_vars
SpecSelfread == InitFor("selfread") /\ [][Next]_vars


\* ------------------------------------------------------------------------
\* What the claims speak of
\* ------------------------------------------------------------------------
SelectorsOf(sc) == HandlesOf(sc) \cap Selectors
AtomsOf(sc) == HandlesOf(sc) \cap Atoms

\* the calls an operation made, read off its trace
Computes(log) == {i \in 1..Len(log) : log[i].k = "compute"}
Fires(log) == {i \in 1..Len(log) : log[i].k = "fire"}
ComputesOf(log, ref, arg) == {i \in 1..Len(log) : log[i] = ComputeEv(ref, arg)}
FiresOf(log, ref, l) == {i \in 1..Len(log) : log[i] = FireEv(ref, l)}

\* a call from outside: store.get, store.set
Pull(as, ref, arg) == getSnapshot(Start(as, {}), ref, arg)
Write(as, ref, u) == update(Start(as, {}), ref, u)
Changes(as, ref, u) == ~Identical(StateOf(as, ref), updater(StateOf(as, ref), u))

\* what the compute function of a selector yields on the current atom
\* states, computed without any memo: the value and the calls it makes
RECURSIVE IdealRun(_, _, _, _)
RECURSIVE Ideal(_, _, _)
IdealRun(as, ref, arg, reads) ==
  LET vals == [i \in 1..Len(reads) |-> Ideal(as, reads[i].ref, reads[i].arg)]
      nr == NextRead(ref, arg, vals)
  IN IF nr.ok THEN IdealRun(as, ref, arg, Append(reads, nr))
     ELSE [res |-> Result(ref, arg, vals), reads |-> reads]
Ideal(as, ref, arg) ==
  IF ~isSelectorRef(ref) THEN StateOf(as, ref)
  ELSE LET r == IdealRun(as, ref, arg, <<>>).res
       IN [ref |-> IF r.arr THEN 1 ELSE 0, v |-> r.v]

\* got is equal, under the selector's equality function, to the value a
\* computation on the current atom states returns (a new array, if an array)
EqualToIdeal(as, ref, arg, got) ==
  LET id == Ideal(as, ref, arg)
  IN equal(ref, got, [id EXCEPT !.ref = IF id.ref > 0 THEN got.ref + 1 ELSE 0])

\* the memoised value of (ref, arg) was computed by reading atom a, directly
\* or through the memoised values of other selectors
RECURSIVE ReadsAtom(_, _, _, _)
ReadsAtom(as, ref, arg, a) ==
  /\ as[ref].mat
  /\ as[ref].memo[arg].has
  /\ \E i \in 1..Len(as[ref].memo[arg].inputs) :
       LET in == as[ref].memo[arg].inputs[i]
       IN \/ in.atomRef = a
          \/ isSelectorRef(in.atomRef) /\ ReadsAtom(as, in.atomRef, in.arg, a)

\* ------------------------------------------------------------------------
\* C1  Pull freshness: in every state the store reaches, by whatever writes,
\* reads, subscribes and unsubscribes, getSnapshot(D, arg) of a selector
\* returns a value equal, under D's equality function, to the value D's
\* compute function yields on the current atom states.
\* ------------------------------------------------------------------------
C1_PullFreshness ==
  \A ref \in SelectorsOf(scn) : \A arg \in ArgsOf(ref) :
    LET r == Pull(store, ref, arg)
    IN r.s.err = "" /\ EqualToIdeal(store, ref, arg, r.val)

\* sd holds a memoised value that a later write made stale, and the pull
\* returns another value than the memoised one
C1_Witness ==
  /\ scn = "diamond"
  /\ store["sd"].memo[NoArg].has
  /\ Pull(store, "sd", NoArg).val # store["sd"].memo[NoArg].value
  /\ ComputesOf(Pull(store, "sd", NoArg).s.log, "sd", NoArg) # {}

\* ------------------------------------------------------------------------
\* C2  Notification completeness: a write that changes an atom calls, before
\* update() returns, every listener of the atom and of every selector whose
\* memoised value was computed by reading that atom.
\* ------------------------------------------------------------------------
C2_NotificationCompleteness ==
  \A a \in AtomsOf(scn) : \A u \in WritesOf(store, a) :
    Changes(store, a, u) =>
      \A h \in HandlesOf(scn) :
        (h = a \/ \E arg \in ArgsOf(h) : ReadsAtom(store, h, arg, a)) =>
          \A i \in 1..Len(store[h].listeners) :
            FiresOf(Write(store, a, u).log, h, store[h].listeners[i]) # {}

\* ------------------------------------------------------------------------
\* C3  No-op write: a write whose value (or updater result) is identical to
\* the atom's state calls no listener, and makes no selector stale: a
\* getSnapshot after it invokes exactly the compute functions it would have
\* invoked before it, none for a selector that was fresh.
\* ------------------------------------------------------------------------
C3_NoopWrite ==
  \A a \in AtomsOf(scn) : \A u \in WritesOf(store, a) :
    ~Changes(store, a, u) =>
      LET s == Write(store, a, u)
      IN /\ s.err = ""
         /\ Fires(s.log) = {}
         /\ \A ref \in SelectorsOf(scn) : \A arg \in ArgsOf(ref) :
              /\ s.as[ref] = store[ref]
              /\ Pull(s.as, ref, arg).s.log = Pull(store, ref, arg).s.log

\* a listener is registered on sd, sd is fresh and was computed from x, x
\* has children to notify, and an updater returns the state it was given
C3_Witness ==
  /\ scn = "diamond"
  /\ store["sd"].listeners # <<>>
  /\ store["x"].children # <<>>
  /\ ReadsAtom(store, "sd", NoArg, "x")
  /\ Pull(store, "sd", NoArg).s.log = <<>>
  /\ store["x"].state = Prim(1)
  /\ Updater(0) \in WritesOf(store, "x")
  /\ Pull(Write(store, "x", Updater(0)).as, "sd", NoArg).s.log = <<>>


\* ------------------------------------------------------------------------
\* C4  Diamond single notification: with sb and sc reading x and sd reading
\* both, one write of a changed value to x calls each listener of sd
\* exactly once.
\* ------------------------------------------------------------------------
DiamondLinked(as) ==
  /\ "sb" \in Range(as["x"].children)
  /\ "sc" \in Range(as["x"].children)
  /\ "sd" \in Range(as["sb"].children)
  /\ "sd" \in Range(as["sc"].children)

C4_DiamondSingleNotification ==
  (scn = "diamond" /\ DiamondLinked(store)) =>
    \A u \in WritesOf(store, "x") :
      Changes(store, "x", u) =>
        \A i \in 1..Len(store["sd"].listeners) :
          Cardinality(FiresOf(Write(store, "x", u).log, "sd",
                              store["sd"].listeners[i])) = 1

\* ------------------------------------------------------------------------
\* C5  Equality-gated propagation: when a write changes an atom that the
\* fresh memoised value of selector D was computed from, and D's compute
\* function then returns a value equal (by D's equality function) to the
\* memoised one, the write calls no listener of D.
\* ------------------------------------------------------------------------
C5_EqualityGatedPropagation ==
  \A ref \in SelectorsOf(scn) \ {"fam"} :
    \A a \in AtomsOf(scn) : \A u \in WritesOf(store, a) :
      LET s == Write(store, a, u)
      IN ( /\ Changes(store, a, u)
           /\ ReadsAtom(store, ref, NoArg, a)
           /\ Pull(store, ref, NoArg).s.log = <<>>
           /\ EqualToIdeal(s.as, ref, NoArg, store[ref].memo[NoArg].value) )
         => \A l \in Listeners : FiresOf(s.log, ref, l) = {}

\* ------------------------------------------------------------------------
\* C6  Reference stability: of two getSnapshot(D, arg) calls in a row, the
\* second returns the identical value, invokes no compute function of D
\* and leaves every memo entry and every edge as the first left them.
\* ------------------------------------------------------------------------
HeldBy(val) == IF IsArray(val) THEN {val.ref} ELSE {}

C6_ReferenceStability ==
  \A ref \in SelectorsOf(scn) : \A arg \in ArgsOf(ref) :
    LET r1 == Pull(store, ref, arg)
        r2 == getSnapshot(Start(r1.s.as, HeldBy(r1.val)), ref, arg)
    IN /\ r2.s.err = ""
       /\ Identical(r2.val, r1.val)
       /\ ComputesOf(r2.s.log, ref, arg) = {}
       /\ r2.s.as = r1.s.as

\* the first of the two calls recomputes sb, which holds an older array,
\* and returns a new array
C6_Witness ==
  /\ scn = "diamond"
  /\ store["sb"].memo[NoArg].has
  /\ ComputesOf(Pull(store, "sb", NoArg).s.log, "sb", NoArg) # {}
  /\ IsArray(Pull(store, "sb", NoArg).val)
  /\ Pull(store, "sb", NoArg).val # store["sb"].memo[NoArg].value

\* ------------------------------------------------------------------------
\* C7  Recomputing a stale selector: when the new value is equal (by the
\* selector's equality function) to the memoised one the memo keeps the old
\* value reference, otherwise it stores the new value; in both cases the
\* recorded inputs become the inputs the new computation observed, and the
\* selector is not dirty afterwards, nor after a further read of any handle
\* or a write that changes no atom.
\* ------------------------------------------------------------------------
Stale(as, ref, arg) ==
  /\ as[ref].mat
  /\ as[ref].memo[arg].has
  /\ isDirty(Start(as, {}), ref, arg).val

\* the recorded inputs are the calls the compute function makes on the
\* current atom states, each with the snapshot the parent has now
InputsAreCurrent(as, ref, arg) ==
  LET ins == as[ref].memo[arg].inputs
      reads == IdealRun(as, ref, arg, <<>>).reads
  IN /\ Len(ins) = Len(reads)
     /\ \A i \in 1..Len(ins) :
          /\ ins[i].atomRef = reads[i].ref
          /\ ins[i].arg = reads[i].arg
          /\ Pull(as, ins[i].atomRef, ins[i].arg).s.log = <<>>
          /\ Identical(ins[i].value, Pull(as, ins[i].atomRef, ins[i].arg).val)

C7_RecomputeKeepsEqualReference ==
  \A ref \in SelectorsOf(scn) : \A arg \in ArgsOf(ref) :
    Stale(store, ref, arg) =>
      LET old == store[ref].memo[arg]
          r == getSnapshot(Start(store, HeldBy(old.value)), ref, arg)
          new == r.s.as[ref].memo[arg]
      IN /\ r.s.err = ""
         /\ ComputesOf(r.s.log, ref, arg) # {}
         /\ new.has
         /\ IF EqualToIdeal(store, ref, arg, old.value)
            THEN Identical(new.value, old.value)
            ELSE /\ ~Identical(new.value, old.value)
                 /\ EqualToIdeal(store, ref, arg, new.value)
         /\ InputsAreCurrent(r.s.as, ref, arg)
         /\ ~isDirty(Start(r.s.as, {}), ref, arg).val
         /\ \A h \in HandlesOf(scn) : \A a \in ArgsOf(h) :
              ~isDirty(Pull(r.s.as, h, a).s, ref, arg).val
         /\ \A h \in AtomsOf(scn) : \A u \in WritesOf(r.s.as, h) :
              ~Changes(r.s.as, h, u) =>
                ~isDirty(Start(Write(r.s.as, h, u).as, {}), ref, arg).val

\* sb is stale, its array is recomputed with the same items: the old array
\* stays, the recorded value of x is replaced
C7_Witness ==
  /\ scn = "diamond"
  /\ Stale(store, "sb", NoArg)
  /\ IsArray(store["sb"].memo[NoArg].value)
  /\ EqualToIdeal(store, "sb", NoArg, store["sb"].memo[NoArg].value)
  /\ Pull(store, "sb", NoArg).s.as["sb"].memo[NoArg].inputs
       # store["sb"].memo[NoArg].inputs


\* ------------------------------------------------------------------------
\* C8  Dynamic dependency rebinding: dyn reads x when flag is true and y
\* otherwise.  Once dyn has been computed on one branch, the flag is
\* flipped and dyn is pulled again, a write to the abandoned atom calls no
\* listener of dyn and a write to the atom it reads now calls every
\* listener of dyn.
\* ------------------------------------------------------------------------
Branch(flagState) == IF Truthy(flagState) THEN "x" ELSE "y"
Other(a) == IF a = "x" THEN "y" ELSE "x"

\* the store after the flag is flipped by u and dyn is pulled again
Repulled(as, u) == Pull(Write(as, "flag", u).as, "dyn", NoArg).s.as

C8_DynamicRebinding ==
  (scn = "dynamic" /\ store["dyn"].mat /\ store["dyn"].memo[NoArg].has) =>
    LET before == store["dyn"].memo[NoArg].inputs[2].atomRef
    IN \A u \in WritesOf(store, "flag") :
         Branch(updater(StateOf(store, "flag"), u)) = Other(before) =>
           LET as == Repulled(store, u)
           IN /\ \A w \in WritesOf(as, before) : \A l \in Listeners :
                   FiresOf(Write(as, before, w).log, "dyn", l) = {}
              /\ \A w \in WritesOf(as, Other(before)) :
                   Changes(as, Other(before), w) =>
                     \A i \in 1..Len(as["dyn"].listeners) :
                       FiresOf(Write(as, Other(before), w).log, "dyn",
                               as["dyn"].listeners[i]) # {}

\* dyn was computed while the flag was true, so x notifies dyn and y does
\* not; dyn has a listener; the flag can be flipped
C8_Witness ==
  /\ scn = "dynamic"
  /\ store["dyn"].memo[NoArg].has
  /\ store["dyn"].memo[NoArg].inputs[2].atomRef = "x"
  /\ "dyn" \in Range(store["x"].children)
  /\ "dyn" \notin Range(store["y"].children)
  /\ store["dyn"].listeners # <<>>
  /\ Truthy(store["flag"].state)
  /\ "dyn" \in Range(Repulled(store, Plain(0))["y"].children)
  /\ "dyn" \notin Range(Repulled(store, Plain(0))["x"].children)

\* ------------------------------------------------------------------------
\* C9  Family memo isolation: getSnapshot(fam, a) returns the value computed
\* with argument a, and computing or recomputing fam for a leaves the memo
\* entry (value and recorded inputs) of every other argument as it was.
\* ------------------------------------------------------------------------
C9_FamilyMemoIsolation ==
  scn = "family" =>
    \A h \in {"fam", "use"} : \A a \in ArgsOf(h) :
      LET r == Pull(store, h, a)
      IN /\ r.s.err = ""
         /\ EqualToIdeal(store, h, a, r.val)
         /\ \A b \in ArgsOf("fam") :
              (ComputesOf(r.s.log, "fam", b) = {} /\ store["fam"].mat) =>
                r.s.as["fam"].memo[b] = store["fam"].memo[b]

\* fam holds a value for 2, its value for 1 is stale and the atoms read
\* under 1 and 2 differ
C9_Witness ==
  /\ scn = "family"
  /\ store["fam"].memo[2].has
  /\ Stale(store, "fam", 1)
  /\ ComputesOf(Pull(store, "fam", 1).s.log, "fam", 1) # {}
  /\ Pull(store, "fam", 1).val # store["fam"].memo[2].value
  /\ Pull(store, "fam", 1).val # store["fam"].memo[1].value

\* ------------------------------------------------------------------------
\* C10  Family dependency isolation: fam(1) reads x and fam(2) reads y.
\* When fam depends on x through its entry for 1, evaluating fam for 2
\* does not remove that dependency: a later write of a changed value to x
\* still calls every listener of fam and of use, which reads fam(1).
\* ------------------------------------------------------------------------
C10_FamilyDependencyIsolation ==
  ( /\ scn = "family"
    /\ ReadsAtom(store, "fam", 1, "x")
    /\ "fam" \in Range(store["x"].children) ) =>
    LET as == Pull(store, "fam", 2).s.as
    IN /\ "fam" \in Range(as["x"].children)
       /\ \A u \in WritesOf(as, "x") :
            Changes(as, "x", u) =>
              \A h \in {"fam", "use"} :
                (h = "fam" \/ "use" \in Range(as["fam"].children)) =>
                  \A i \in 1..Len(as[h].listeners) :
                    FiresOf(Write(as, "x", u).log, h, as[h].listeners[i]) # {}


\* ------------------------------------------------------------------------
\* The outcomes of the operations a client can call in the current state
\* ------------------------------------------------------------------------
ReadOutcomes ==
  {getSnapshot(Begin(store, getters), ref, arg).s :
     <<ref, arg>> \in {p \in Callable(scn) \X Args : p[2] \in ArgsOf(p[1])}}
  \cup {call(Begin(store, getters), ref, arg).s :
     <<ref, arg>> \in {p \in Callable(scn) \X Args : p[2] \in ArgsOf(p[1])}}
SubscribeOutcomes ==
  {subscribe(Begin(store, getters), ref, l) :
     <<ref, l>> \in {p \in (ListenedOf(scn) \cup Unregistered) \X ListenersOn("outer") :
                       p[2] \in ListenersOn(p[1])}}
UnsubscribeOutcomes ==
  {unsubscribe(Begin(store, getters), t.ref, t.l, t.live) : t \in subs}
WriteOutcomes ==
  {update(Begin(store, getters), ref, u) :
     <<ref, u>> \in {p \in Callable(scn) \X (UNION {WritesOf(store, h) : h \in Callable(scn)}) :
                       p[2] \in WritesOf(store, p[1])}}
Outcomes == ReadOutcomes \cup SubscribeOutcomes \cup UnsubscribeOutcomes \cup WriteOutcomes

\* the unsubscribe closure t removes the last listener of its handle, which
\* has no children
LastListener(t) ==
  /\ t.live
  /\ store[t.ref].listeners = <<t.l>>
  /\ store[t.ref].children = <<>>

\* ------------------------------------------------------------------------
\* C11  After the last listener of a selector that is not persistent
\* unsubscribes while the selector has no children, the selector has no
\* entry in atomStates and none in debug().
\* ------------------------------------------------------------------------
C11_NonPersistentRemoved ==
  \A t \in subs :
    (LastListener(t) /\ isSelector(t.ref) /\ ~persist(t.ref)) =>
      LET s == unsubscribe(Begin(store, getters), t.ref, t.l, t.live)
      IN /\ s.err = ""
         /\ ~s.as[t.ref].mat
         /\ t.ref \notin DOMAIN debug(s.as).__selectors

\* outer has been computed and has one listener, whose closure is about to
\* be called
C11_Witness ==
  /\ scn = "release"
  /\ store["outer"].memo[NoArg].has
  /\ "outer" \in DOMAIN debug(store).__selectors
  /\ \E t \in subs : t.ref = "outer" /\ LastListener(t)

\* ------------------------------------------------------------------------
\* C12  Atoms are permanent: no read, call, subscribe, unsubscribe or write
\* removes a materialised atom from atomStates, and only a write to the
\* atom itself changes its state, whatever its listeners and children.
\* ------------------------------------------------------------------------
C12_AtomsPermanent ==
  \A a \in AtomsOf(scn) :
    store[a].mat =>
      /\ \A s \in Outcomes : s.as[a].mat
      /\ \A s \in ReadOutcomes \cup SubscribeOutcomes \cup UnsubscribeOutcomes :
           s.as[a].state = store[a].state
      /\ \A h \in Callable(scn) \ {a} : \A u \in WritesOf(store, h) :
           update(Begin(store, getters), h, u).as[a].state = store[a].state

\* x was written, has lost its children, and its last listener is about to
\* unsubscribe
C12_Witness ==
  /\ scn = "dynamic"
  /\ store["x"].mat
  /\ store["x"].state # initialState("x")
  /\ store["dyn"].memo[NoArg].has
  /\ \E t \in subs : t.ref = "x" /\ LastListener(t)

\* ------------------------------------------------------------------------
\* C13  A persistent selector stays materialised whatever operation runs,
\* and an unsubscribe that takes away its last listener or its last
\* dependent leaves its memo as it was.
\* ------------------------------------------------------------------------
\* the selectors the clients create with selector() and no persist option
DefaultPersist(sc) == SelectorsOf(sc) \ {"use", "inner", "outer"}

RECURSIVE Above(_, _, _)
Above(as, hs, n) ==
  IF n = 0 THEN hs
  ELSE Above(as, hs \cup UNION {Range(as[h].parents) : h \in hs}, n - 1)
Ancestors(as, ref) == Above(as, Range(as[ref].parents), Cardinality(Handles))

C14_RecursiveRelease ==
  \A t \in subs :
    (LastListener(t) /\ isSelector(t.ref)) =>
      LET s == unsubscribe(Begin(store, getters), t.ref, t.l, t.live)
      IN /\ \A p \in Range(store[t.ref].parents) :
              t.ref \notin Range(s.as[p].children)
         /\ \A h \in Ancestors(store, t.ref) :
              (isSelector(h) /\ ~persist(h) /\ s.as[h].mat) =>
                (s.as[h].listeners # <<>> \/ s.as[h].children # <<>>)

\* outer reads inner, which has no listener and no other child and reads
\* x; the last listener of outer is about to unsubscribe, which removes both
C14_Witness ==
  /\ scn = "release"
  /\ store["inner"].listeners = <<>>
  /\ store["inner"].children = <<"outer">>
  /\ store["x"].children = <<"inner">>
  /\ \E t \in subs :
       /\ t.ref = "outer"
       /\ LastListener(t)
       /\ LET s == unsubscribe(Begin(store, getters), t.ref, t.l, t.live)
          IN ~s.as["outer"].mat /\ ~s.as["inner"].mat /\ s.as["x"].children = <<>>


\* ------------------------------------------------------------------------
\* C15  A selector that is not persistent and has no listener is removed
\* from atomStates when it loses its last child because the child was
\* recomputed and reads it no more.
\* ------------------------------------------------------------------------
C15_UnreachableRemoved ==
  \A h \in SelectorsOf(scn) :
    ( /\ ~persist(h)
      /\ store[h].mat
      /\ store[h].listeners = <<>>
      /\ store[h].children # <<>> ) =>
      \A ref \in SelectorsOf(scn) :
        LET s == Pull(store, ref, NoArg).s
        IN (s.err = "" /\ s.as[h].children = <<>>) => ~s.as[h].mat


\* ------------------------------------------------------------------------
\* C16  Teardown eligibility: only an unsubscribe removes a selector from
\* atomStates, and the selector it removes had no listener but the one
\* unsubscribing and no child that the same unsubscribe did not release.
\* Unsubscribing one of several listeners changes nothing but the set of
\* listeners, and every write calls the remaining listeners as often as it
\* would have without the unsubscribe.
\* ------------------------------------------------------------------------
\* c was released by the operation that ended in s
ReleasedIn(s, c) ==
  \/ ~s.as[c].mat
  \/ persist(c) /\ s.as[c].listeners = <<>> /\ s.as[c].children = <<>>

C16_TeardownEligibility ==
  /\ \A s \in ReadOutcomes \cup SubscribeOutcomes \cup WriteOutcomes :
       \A h \in SelectorsOf(scn) : store[h].mat => s.as[h].mat
  /\ \A t \in subs :
       LET s == unsubscribe(Begin(store, getters), t.ref, t.l, t.live)
       IN /\ \A h \in SelectorsOf(scn) :
               (store[h].mat /\ ~s.as[h].mat) =>
                 /\ Range(store[h].listeners) \subseteq
                      (IF t.ref = h /\ t.live THEN {t.l} ELSE {})
                 /\ \A c \in Range(store[h].children) : ReleasedIn(s, c)
          /\ (t.live /\ Len(store[t.ref].listeners) > 1) =>
               /\ s.err = ""
               /\ s.as = [store EXCEPT ![t.ref].listeners = SetDelete(@, t.l)]
               /\ \A a \in AtomsOf(scn) : \A u \in WritesOf(store, a) :
                    \A l \in Range(s.as[t.ref].listeners) :
                      Cardinality(FiresOf(Write(s.as, a, u).log, t.ref, l))
                        = Cardinality(FiresOf(Write(store, a, u).log, t.ref, l))

\* outer has two listeners and no child, and reads x through inner; one of
\* the listeners is about to unsubscribe, and a write to x calls the other
C16_Witness ==
  /\ scn = "release"
  /\ Len(store["outer"].listeners) = 2
  /\ store["outer"].children = <<>>
  /\ "inner" \in Range(store["outer"].parents)
  /\ \E t \in subs :
       /\ t.ref = "outer" /\ t.live
       /\ \E l \in Range(store["outer"].listeners) \ {t.l} :
            \E u \in WritesOf(store, "x") :
              FiresOf(Write(unsubscribe(Begin(store, getters), t.ref, t.l, t.live).as,
                            "x", u).log, "outer", l) # {}


\* ------------------------------------------------------------------------
\* C17  A write whose target is a selector, be it a plain value, an updater
\* function or a dispatched action, fails with 'Only atoms can be updated':
\* no listener is called and nothing in the store changes, except that the
\* selector gets an empty runtime if it had none.
\* ------------------------------------------------------------------------
C17_WriteToSelectorFails ==
  \A h \in SelectorsOf(scn) :
    \A u \in Plains(h) \cup {Updater(1), Dispatch("inc")} :
      LET s == update(Begin(store, getters), h, u)
      IN /\ s.err = "Only atoms can be updated"
         /\ Fires(s.log) = {}
         /\ \A a \in AtomsOf(scn) : s.as[a].state = store[a].state
         /\ \A k \in SelectorsOf(scn) : s.as[k].memo = store[k].memo
         /\ s.as = [store EXCEPT ![h] = IF store[h].mat THEN @ ELSE NewRuntime(h)]
         /\ s.getters = getters

\* dyn holds a value computed from x and has a listener, x was written, and
\* a write to dyn fails
C17_Witness ==
  /\ scn = "dynamic"
  /\ store["dyn"].memo[NoArg].has
  /\ "dyn" \in Range(store["x"].children)
  /\ store["dyn"].listeners # <<>>
  /\ store["x"].state # initialState("x")
  /\ update(Begin(store, getters), "dyn", Updater(1)).err = "Only atoms can be updated"


\* ------------------------------------------------------------------------
\* C18  In every state the store is in between two operations, whatever
\* ran before, calling an atom or selector handle as a function fails with
\* 'Atoms can only be read in selectors' and leaves the store unchanged.
\* ------------------------------------------------------------------------
C18_CallOutsideComputationFails ==
  \A ref \in HandlesOf(scn) : \A arg \in ArgsOf(ref) :
    LET r == call(Begin(store, getters), ref, arg)
    IN /\ r.s.err = "Atoms can only be read in selectors"
       /\ r.s.as = store


\* ------------------------------------------------------------------------
\* C19  A read, a write or a subscribe with a handle that neither atom()
\* nor selector() created fails with an error and adds no entry to
\* atomStates; no listener is called.
\* ------------------------------------------------------------------------
C19_UnregisteredHandleFails ==
  \A g \in Unregistered :
    /\ ~store[g].mat
    /\ LET r == getSnapshot(Begin(store, getters), g, NoArg)
       IN r.s.err # "" /\ r.s.as = store
    /\ \A u \in Plains(g) \cup {Updater(1), Dispatch("inc")} :
         LET s == update(Begin(store, getters), g, u)
         IN s.err # "" /\ s.as = store /\ Fires(s.log) = {}
    /\ \A l \in ListenersOn(g) :
         LET s == subscribe(Begin(store, getters), g, l)
         IN s.err # "" /\ s.as = store

\* the store holds computed selectors and listeners, and a read of ghost
\* ends with the TypeError of getAtom
C19_Witness ==
  /\ scn = "dynamic"
  /\ store["dyn"].memo[NoArg].has
  /\ store["dyn"].listeners # <<>>
  /\ getSnapshot(Begin(store, getters), "ghost", NoArg).s.err = "TypeError"
  /\ subscribe(Begin(store, getters), "ghost", 1).err = "TypeError"


\* ------------------------------------------------------------------------
\* C20  A write of a value that is no function sets the atom's state to
\* the value; a write of the updater (c) => c + n sets it to the current
\* state plus n; dispatch(action) sets it to what the reducer returns for
\* the current state and the action; and a second updater write receives
\* the state the first one left.
\* ------------------------------------------------------------------------
Num(as, a) == StateOf(as, a).v[1]

C20_SetSemantics ==
  \A a \in AtomsOf(scn) :
    /\ \A n \in ValsOf(a) :
         Write(store, a, Plain(n)).as[a].state = Prim(n)
    /\ \A u \in Updaters(store, a) :
         /\ Write(store, a, u).as[a].state = Prim(Num(store, a) + u.n)
         /\ \A w \in Updaters(Write(store, a, u).as, a) :
              Write(Write(store, a, u).as, a, w).as[a].state
                = Prim(Num(store, a) + u.n + w.n)
    /\ \A d \in Dispatches(store, a) :
         Write(store, a, d).as[a].state
           = Prim(Num(store, a) + (CASE d.action = "inc" -> 1
                                     [] d.action = "dec" -> 0 - 1
                                     [] OTHER -> 0))

\* x holds 1 and has dependents; the updater (c) => c + 1 leaves 2, not 1,
\* and a second one would leave 3
C20_Witness ==
  /\ scn = "dynamic"
  /\ store["x"].state = Prim(1)
  /\ store["x"].children # <<>>
  /\ Updater(1) \in Updaters(store, "x")
  /\ Write(store, "x", Updater(1)).as["x"].state = Prim(2)
  /\ Dispatch("dec") \in Dispatches(store, "x")


\* ------------------------------------------------------------------------
\* C22  Writes never recompute: update() and the notify() it runs invoke no
\* compute function and leave every memo entry, every parents set and every
\* children set as they were; subscribe and unsubscribe compute nothing
\* either.
\* ------------------------------------------------------------------------
C22_WritesNeverRecompute ==
  /\ \A a \in AtomsOf(scn) : \A u \in WritesOf(store, a) :
       LET s == update(Begin(store, getters), a, u)
       IN /\ Computes(s.log) = {}
          /\ \A h \in HandlesOf(scn) :
               /\ s.as[h].memo = store[h].memo
               /\ s.as[h].parents = store[h].parents
               /\ s.as[h].children = store[h].children
  /\ \A s \in SubscribeOutcomes \cup UnsubscribeOutcomes : Computes(s.log) = {}

\* dyn holds a value computed from x and has a listener; a write to x calls
\* the listener and leaves dyn stale, to be recomputed by the next pull
C22_Witness ==
  /\ scn = "dynamic"
  /\ store["dyn"].memo[NoArg].has
  /\ "dyn" \in Range(store["x"].children)
  /\ store["dyn"].listeners # <<>>
  /\ ~Stale(store, "dyn", NoArg)
  /\ \E u \in WritesOf(store, "x") :
       /\ Fires(Write(store, "x", u).log) # {}
       /\ Stale(Write(store, "x", u).as, "dyn", NoArg)


InputChanged(as, in) ==
  ~Identical(Pull(as, in.atomRef, in.arg).val, in.value)

StaleByInputs(as, ref, arg) ==
  \/ ~as[ref].mat
  \/ ~as[ref].memo[arg].has
  \/ \E i \in 1..Len(as[ref].memo[arg].inputs) :
       InputChanged(as, as[ref].memo[arg].inputs[i])

C25_RecomputeIffStale ==
  \A ref \in SelectorsOf(scn) : \A arg \in ArgsOf(ref) :
    LET r == Pull(store, ref, arg)
    IN IF StaleByInputs(store, ref, arg)
       THEN Cardinality(ComputesOf(r.s.log, ref, arg)) = 1
       ELSE /\ ComputesOf(r.s.log, ref, arg) = {}
            /\ r.s.err = ""
            /\ Identical(r.val, store[ref].memo[arg].value)
            /\ r.s.as[ref].memo[arg] = store[ref].memo[arg]

\* fam holds an entry for 1 whose recorded value of x is no longer the
\* state of x, and an entry for 2 whose recorded value of y still is the
\* state of y: a pull computes the former and not the latter
C25_Witness ==
  /\ scn = "family"
  /\ store["fam"].memo[1].has
  /\ store["fam"].memo[2].has
  /\ StaleByInputs(store, "fam", 1)
  /\ ~StaleByInputs(store, "fam", 2)
  /\ ComputesOf(Pull(store, "fam", 1).s.log, "fam", 1) # {}
  /\ ComputesOf(Pull(store, "fam", 2).s.log, "fam", 2) = {}


\* ------------------------------------------------------------------------
\* C26  A selector whose compute function reads nothing is computed at most
\* once per argument while its runtime stays in atomStates: once it holds
\* an entry for an argument, no operation changes the entry, and a pull,
\* straight away or after any write, computes nothing and returns the
\* memoised value.
\* ------------------------------------------------------------------------
ReadsNothing(ref, arg) == ~NextRead(ref, arg, <<>>).ok

C26_ConstantSelectorComputedOnce ==
  \A ref \in SelectorsOf(scn) : \A arg \in ArgsOf(ref) :
    (ReadsNothing(ref, arg) /\ store[ref].mat /\ store[ref].memo[arg].has) =>
      /\ ComputesOf(Pull(store, ref, arg).s.log, ref, arg) = {}
      /\ Identical(Pull(store, ref, arg).val, store[ref].memo[arg].value)
      /\ \A s \in Outcomes :
           s.as[ref].mat => s.as[ref].memo[arg] = store[ref].memo[arg]
      /\ \A a \in AtomsOf(scn) : \A u \in WritesOf(store, a) :
           ComputesOf(Pull(Write(store, a, u).as, ref, arg).s.log, ref, arg) = {}

\* konst holds its array for 1 and none for 2, extra was written, and
\* another write is about to change extra
C26_Witness ==
  /\ scn = "labels"
  /\ store["konst"].memo[1].has
  /\ ~store["konst"].memo[2].has
  /\ store["konst"].memo[1].inputs = <<>>
  /\ IsArray(store["konst"].memo[1].value)
  /\ store["extra"].state # initialState("extra")
  /\ \E u \in WritesOf(store, "extra") : Changes(store, "extra", u)


\* ------------------------------------------------------------------------
\* C27  After k >= 1 consecutive writes to atoms with no read in between,
\* the next getSnapshot of a selector calls the compute function of that
\* selector, and of every other selector, at most once per argument and
\* returns the value for the final atom states.
\* ------------------------------------------------------------------------
\* the stores k consecutive writes to atoms lead to
RECURSIVE AfterWrites(_, _)
AfterWrites(ass, k) ==
  IF k = 0 THEN ass
  ELSE AfterWrites(
         UNION {{update(Begin(as, getters), a, u).as : u \in WritesOf(as, a)} :
                  <<as, a>> \in ass \X AtomsOf(scn)},
         k - 1)
Batched == UNION {AfterWrites({store}, k) : k \in 1..MaxBatch}

C27_BatchedWrites ==
  \A as \in Batched : \A ref \in SelectorsOf(scn) : \A arg \in ArgsOf(ref) :
    LET p == getSnapshot(Begin(as, getters), ref, arg)
    IN /\ \A c \in SelectorsOf(scn) : \A carg \in ArgsOf(c) :
            Cardinality(ComputesOf(p.s.log, c, carg)) <= 1
       /\ p.s.err = "" => EqualToIdeal(as, ref, arg, p.val)

\* use and fam(1) hold values; two writes raise x twice, and the pull of
\* use that follows computes fam(1) once and use once and yields the last x
C27_Witness ==
  /\ scn = "family"
  /\ store["use"].mat /\ store["use"].memo[NoArg].has
  /\ store["fam"].mat /\ store["fam"].memo[1].has
  /\ StateOf(store, "x").v[1] + 2 \in ValsOf("x")
  /\ LET as1 == update(Begin(store, getters), "x", Updater(1)).as
         as2 == update(Begin(as1, getters), "x", Updater(1)).as
         p == getSnapshot(Begin(as2, getters), "use", NoArg)
     IN /\ as2 \in Batched
        /\ Cardinality(ComputesOf(p.s.log, "use", NoArg)) = 1
        /\ Cardinality(ComputesOf(p.s.log, "fam", 1)) = 1
        /\ p.val.v[1] = StateOf(store, "x").v[1] + 2
        /\ store["use"].memo[NoArg].value.v[1] = StateOf(store, "x").v[1]


\* ------------------------------------------------------------------------
\* C28  Reads are attributed to the innermost active computation: when a
\* pull computes selectors, nested or not, the inputs recorded for each
\* computed entry are exactly the reads its own compute function made, in
\* order, with the values it was handed; the parents of each computed
\* selector are the handles of those reads; and a selector that was not
\* computed keeps its inputs and parents.  Moreover every memo entry of
\* every reachable state records a complete run of its own compute function.
\* ------------------------------------------------------------------------
\* inputs is a complete run of the compute function of ref: each input is
\* the read the function makes after the values of the inputs before it,
\* and after the last one it reads nothing more
OwnRun(ref, arg, inputs) ==
  LET valsTo(n) == [i \in 1..n |-> inputs[i].value]
  IN /\ \A i \in 1..Len(inputs) :
          NextRead(ref, arg, valsTo(i - 1)) = Read(inputs[i].atomRef, inputs[i].arg)
     /\ ~NextRead(ref, arg, valsTo(Len(inputs))).ok

\* the handles of inputs, in the order of their first read
RECURSIVE ReadHandles(_, _)
ReadHandles(inputs, n) ==
  IF n = 0 THEN <<>> ELSE SetAdd(ReadHandles(inputs, n - 1), inputs[n].atomRef)

C29_ParentsRebuilt ==
  \A ref \in SelectorsOf(scn) : \A arg \in ArgsOf(ref) :
    LET p == getSnapshot(Begin(store, getters), ref, arg)
    IN p.s.err = "" =>
         \A c \in SelectorsOf(scn) : \A carg \in ArgsOf(c) :
           (/\ ComputesOf(p.s.log, c, carg) # {}
            /\ \A a \in ArgsOf(c) \ {carg} : ComputesOf(p.s.log, c, a) = {}) =>
             LET reads == {p.s.as[c].memo[carg].inputs[i].atomRef :
                             i \in 1..Len(p.s.as[c].memo[carg].inputs)}
             IN /\ Range(p.s.as[c].parents) = reads
                /\ \A former \in Range(store[c].parents) \ reads :
                     /\ p.s.as[former].mat
                     /\ c \notin Range(p.s.as[former].children)

\* dyn was computed on x and is linked to flag and x; flag was cleared
\* since, and the pull computes dyn on y: its parents become flag and y,
\* and x no longer has dyn as a child
C29_Witness ==
  /\ scn = "dynamic"
  /\ store["dyn"].mat /\ store["dyn"].memo[NoArg].has
  /\ store["dyn"].parents = <<"flag", "x">>
  /\ "dyn" \in Range(store["x"].children)
  /\ ~Truthy(store["flag"].state)
  /\ LET p == getSnapshot(Begin(store, getters), "dyn", NoArg)
     IN /\ p.s.log = <<ComputeEv("dyn", NoArg)>>
        /\ p.s.as["dyn"].parents = <<"flag", "y">>
        /\ "dyn" \notin Range(p.s.as["x"].children)
        /\ "dyn" \in Range(p.s.as["y"].children)


\* ------------------------------------------------------------------------
\* C30  update() assigns the new state before it notifies: a listener that
\* calls store.get from inside its callback, on the written atom or on a
\* selector that depends on it, obtains the value after the write.
\* ------------------------------------------------------------------------
ReadsIn(log) == {i \in 1..Len(log) : log[i].k = "read"}

C30_ReentrantReadsSeeNewState ==
  \A a \in AtomsOf(scn) : \A u \in WritesOf(store, a) :
    LET next == updater(StateOf(store, a), u)
        s == update(Begin(store, getters), a, u)
    IN /\ s.err = ""
       /\ s.as[a].state = next
       /\ \A i \in ReadsIn(s.log) :
            IF s.log[i].ref = a THEN Identical(s.log[i].val, next)
            ELSE /\ EqualToIdeal(s.as, s.log[i].ref, NoArg, s.log[i].val)
                 /\ ReadsAtom(s.as, s.log[i].ref, NoArg, a)
                      => s.log[i].val.v = next.v

\* w and top have a listener each and top holds the value of the old w:
\* the write of another number calls the listener of w, which obtains the
\* new w and, after top is computed again, the new top; the listener of
\* top, called afterwards, obtains the new top too
C30_Witness ==
  /\ scn = "reentrant"
  /\ store["w"].mat /\ store["w"].listeners # <<>>
  /\ store["top"].mat /\ store["top"].listeners # <<>>
  /\ store["top"].memo[NoArg].has
  /\ store["top"].memo[NoArg].value = store["w"].state
  /\ \E n \in ValsOf("w") \ {store["w"].state.v[1]} :
       LET s == update(Begin(store, getters), "w", Plain(n))
       IN /\ Len(s.log) >= 6
          /\ SubSeq(s.log, 1, 6) =
               <<FireEv("w", 1), ReadEv("w", Prim(n)),
                 ComputeEv("echo", NoArg), ComputeEv("top", NoArg),
                 ReadEv("top", Prim(n)), FireEv("top", 1)>>
          /\ s.log[Len(s.log)] = ReadEv("top", Prim(n))


\* ------------------------------------------------------------------------
\* C21  Reads never write cells: store.get, with every dirty check and
\* recomputation it triggers, and debug() leave the state of every atom as
\* it is and call no listener.
\* ------------------------------------------------------------------------
ReadsLeaveAtoms ==
  \A s \in ReadOutcomes :
    /\ Fires(s.log) = {}
    /\ \A a \in AtomsOf(scn) : StateOf(s.as, a) = StateOf(store, a)

DebugLeavesAtoms ==
  \A a \in AtomsOf(scn) : StateOf(debug(store).as, a) = StateOf(store, a)

C21_ReadsNeverWriteCells == ReadsLeaveAtoms /\ DebugLeavesAtoms


\* ------------------------------------------------------------------------
\* C23  Store isolation: the handles used in two stores have a runtime in
\* each; a read, write, subscribe or unsubscribe on one store leaves the
\* atom states, memo entries, edges and materialised handles of the other
\* store as they are and calls no listener registered on the other store.
\* ------------------------------------------------------------------------
\* the running states the operations of the st-th store end in
OutcomesOn(st) ==
  {getSnapshot(On(st), ref, arg).s :
     <<ref, arg>> \in {p \in Callable(scn) \X Args : p[2] \in ArgsOf(p[1])}}
  \cup UNION {{update(On(st), ref, u) : u \in WritesOf(On(st).as, ref)} :
                ref \in Callable(scn)}
  \cup {subscribe(On(st), ref, l) :
          <<ref, l>> \in (ListenedOf(scn) \cup Unregistered) \X Listeners}
  \cup {unsubscribe(On(st), t.ref, t.l, t.live) :
          t \in {u \in subs : u.st = createStore(st)}}

\* the Map of store o after an operation of store st left its own Map as as
MapAfter(st, as, o) ==
  IF createStore(o) = createStore(st) THEN as ELSE atomStates(createStore(o))

C23_StoreIsolation ==
  \A st \in StoresOf(scn) : \A o \in StoresOf(scn) \ {st} :
    \A s \in OutcomesOn(st) :
      /\ MapAfter(st, s.as, o) = atomStates(createStore(o))
      /\ \A i \in Fires(s.log) :
           ~(\E t \in subs : /\ t.st = createStore(o)
                              /\ t.ref = s.log[i].ref
                              /\ s.log[i].st = t.st)

\* both stores hold x and sc with a listener on sc, the first store with
\* x = 1 and the second with x = 2; a write to x in the first store calls
\* the listener of the first store and changes the first store alone
C23_Witness ==
  /\ scn = "stores"
  /\ store["x"].state = Prim(1) /\ store2["x"].state = Prim(2)
  /\ store["sc"].memo[NoArg].has /\ store["sc"].memo[NoArg].value = Prim(1)
  /\ store2["sc"].memo[NoArg].has /\ store2["sc"].memo[NoArg].value = Prim(2)
  /\ store["sc"].listeners = <<1>> /\ store2["sc"].listeners = <<1>>
  /\ \E t \in subs : t.st = 2 /\ t.ref = "sc" /\ t.live
  /\ LET s == update(On(1), "x", Plain(0))
     IN /\ s \in OutcomesOn(1)
        /\ s.as # store
        /\ Fires(s.log) # {}
        /\ \A i \in Fires(s.log) : s.log[i] = FireEv("sc", 1)
        /\ getSnapshot(On(2), "sc", NoArg).val = Prim(2)


\* ------------------------------------------------------------------------
\* C31  A selector's value exists as soon as its runtime exists: every
\* selector that has a runtime in atomStates, whether a read, a subscribe
\* or an attempted write made it, holds a memoised value.
\* ------------------------------------------------------------------------
HasValue(as, ref) == \E arg \in ArgsOf(ref) : as[ref].memo[arg].has

C31_RuntimeHasValue ==
  \A ref \in SelectorsOf(scn) : store[ref].mat => HasValue(store, ref)


\* ------------------------------------------------------------------------
\* C32  Re-materialisation: once the last unsubscribe has removed a
\* selector that is not persistent, with or without a write afterwards, a
\* subscribe finds no runtime and creates a new one with an empty memo,
\* and a read computes the value anew from the current atom states and
\* links the selector to every handle it read; a listener registered on it
\* is then called by every write that changes an atom it reads.
\* ------------------------------------------------------------------------
\* the stores a removal may be followed by: as itself and as after a write
ThenWritten(as) ==
  {as} \cup UNION {{Write(as, a, u).as : u \in WritesOf(as, a)} : a \in AtomsOf(scn)}

\* ref is linked to the handles its memoised value was computed from
Linked(as, ref, arg) ==
  \A i \in 1..Len(as[ref].memo[arg].inputs) :
    LET p == as[ref].memo[arg].inputs[i].atomRef
    IN /\ as[p].mat
       /\ p \in Range(as[ref].parents)
       /\ ref \in Range(as[p].children)

\* the read of a selector that has no runtime in as, and a subscribe after it
Rematerialised(as, ref, l) ==
  LET r == Pull(as, ref, NoArg)
      s2 == subscribe(Start(r.s.as, {}), ref, l)
  IN /\ r.s.err = ""
     /\ ComputesOf(r.s.log, ref, NoArg) # {}
     /\ EqualToIdeal(as, ref, NoArg, r.val)
     /\ r.s.as[ref].memo[NoArg].value = r.val
     /\ Linked(r.s.as, ref, NoArg)
     /\ \A a \in AtomsOf(scn) : \A u \in WritesOf(s2.as, a) :
          (Changes(s2.as, a, u) /\ ReadsAtom(s2.as, ref, NoArg, a)) =>
            FiresOf(Write(s2.as, a, u).log, ref, l) # {}

C33_EdgeSymmetry ==
  \A P \in HandlesOf(scn) : \A S \in HandlesOf(scn) :
    (store[P].mat /\ store[S].mat) =>
      (P \in Range(store[S].parents) <=> S \in Range(store[P].children))


\* ------------------------------------------------------------------------
\* C34  No dangling parent edges: every handle in the parents of a selector
\* with a runtime has a runtime itself, and no read of a handle, with any
\* argument, fails for want of a parent's runtime.
\* ------------------------------------------------------------------------
C34_NoDanglingParents ==
  /\ \A S \in SelectorsOf(scn) :
       store[S].mat => \A P \in Range(store[S].parents) : store[P].mat
  /\ \A h \in HandlesOf(scn) : \A arg \in ArgsOf(h) :
       Pull(store, h, arg).s.err = ""


\* ------------------------------------------------------------------------
\* C35  No dangling child edges: every handle in the children of a handle
\* with a runtime has a runtime itself, and no write fails because notify
\* finds no runtime for a child.
\* ------------------------------------------------------------------------
C35_NoDanglingChildren ==
  /\ \A P \in HandlesOf(scn) :
       store[P].mat => \A S \in Range(store[P].children) : store[S].mat
  /\ \A a \in AtomsOf(scn) : \A u \in WritesOf(store, a) :
       Write(store, a, u).err # "TypeError"


\* ------------------------------------------------------------------------
\* C36  Re-acquiring a persistent selector: fam is persistent and use reads
\* fam(1), which reads x.  Whatever subscribes and unsubscribes came
\* before, fam having been left without dependent and listener and then
\* read by use again included, when use holds a value computed from x
\* through the entry of fam for 1 (the only entry of fam), a write of a
\* changed value to x calls every listener of use.
\* ------------------------------------------------------------------------
C36_ReacquiredSelectorNotifies ==
  ( /\ scn = "family"
    /\ store["use"].mat /\ store["fam"].mat
    /\ ~store["fam"].memo[2].has
    /\ "use" \in Range(store["fam"].children)
    /\ ReadsAtom(store, "use", NoArg, "x")
    /\ Pull(store, "use", NoArg).s.log = <<>> ) =>
    \A u \in WritesOf(store, "x") :
      Changes(store, "x", u) =>
        \A i \in 1..Len(store["use"].listeners) :
          FiresOf(Write(store, "x", u).log, "use", store["use"].listeners[i]) # {}


\* ------------------------------------------------------------------------
\* C37  Propagation terminates: in a client program whose selectors depend
\* on each other without cycle, argument by argument (chain(2) reads
\* chain(1), which reads x), every write returns after finitely many
\* listener calls: notify never runs through a cycle of children.
\* ------------------------------------------------------------------------
C37_PropagationTerminates ==
  \A a \in AtomsOf(scn) : \A u \in WritesOf(store, a) :
    Write(store, a, u).err # "RangeError"


\* ------------------------------------------------------------------------
\* C38  The getter stack is balanced around every computation: a
\* getSnapshot call, whether the compute functions it ran returned or
\* threw, leaves the stack of active getters as it found it; and after one
\* that threw, a handle called outside any computation fails with 'Atoms
\* can only be read in selectors' and changes no edge of the store.
\* ------------------------------------------------------------------------
C38_GetterStackBalanced ==
  \A ref \in HandlesOf(scn) : \A arg \in ArgsOf(ref) :
    LET r == getSnapshot(Begin(store, getters), ref, arg)
    IN /\ r.s.getters = getters
       /\ r.s.err = "Error" =>
            \A h \in HandlesOf(scn) : \A a \in ArgsOf(h) :
              LET c == call(Begin(r.s.as, r.s.getters), h, a)
              IN /\ c.s.err = "Atoms can only be read in selectors"
                 /\ c.s.as = r.s.as


\* ------------------------------------------------------------------------
\* C39  Unsubscribe is idempotent: the closure returned by subscribe removes
\* no listener but its own, and called a second time it raises no error
\* and leaves atomStates as the first call left it, also when the first
\* call removed the runtime of the selector.
\* ------------------------------------------------------------------------
C39_UnsubscribeIdempotent ==
  \A t \in subs :
    LET s1 == unsubscribe(Begin(store, getters), t.ref, t.l, t.live)
        s2 == unsubscribe(Begin(s1.as, getters), t.ref, t.l,
                          t.live /\ s1.as[t.ref].mat)
    IN s1.err = "" =>
         /\ \A h \in HandlesOf(scn) : \A l \in Range(store[h].listeners) :
              (h # t.ref \/ l # t.l) => l \in Range(s1.as[h].listeners)
         /\ s2.err = ""
         /\ s2.as = s1.as

====
